---- MODULE Spec2Model ----
(***************************************************************************)
(* A model of apollo-engine-reporting's per-request tracing:               *)
(*   - EngineReportingTreeBuilder (treeBuilder.ts): the node map, the      *)
(*     node tree and the monotonic clock;                                  *)
(*   - EngineReportingExtension (extension.ts, src/unnamed/part_000): the  *)
(*     request tracer that drives the builder and submits the trace.       *)
(* JavaScript runs every handler to completion, so each handler is one     *)
(* atomic action. A handler that throws leaves the state as it was at the  *)
(* throw and records the message in `last`.                                *)
(***************************************************************************)
EXTENDS Integers, Sequences, FiniteSets, TLC

VARIABLES
    now,            \* the monotonic clock, in nanoseconds (process.hrtime)
    startHrTime,    \* builder.startHrTime: [set, t]
    stopped,        \* builder.stopped
    heap,           \* every Trace.Node allocated so far, in allocation order
    nodes,          \* builder.nodes: dot-joined path string -> node (index of heap)
    handles,        \* the end handles willResolveField has returned (node of each)
    returned,       \* what stopTiming returned to its caller
    fieldLog,       \* history: the paths of the successful willResolveField calls
    last,           \* the last call: [op, threw]
    ticks,          \* history: how often the clocks have advanced
    wall,           \* the wall clock, in milliseconds (new Date())
    options,        \* extension.options
    requestContext, \* the pipeline's GraphQLRequestContext, shared with the extension
    trace,          \* extension.trace
    explicitOperationName,  \* extension.explicitOperationName
    queryString,    \* extension.queryString
    documentAST,    \* extension.documentAST
    endHandler,     \* requestDidStart has returned its end handler
    submitted,      \* the arguments of every addTrace call
    seenErrors,     \* history: the errors handed to didEncounterErrors
    agent           \* the EngineReportingAgent the options belong to: "none" before its
                    \* constructor has run, then "ready", or "failed" if it threw

tracerVars == <<options, requestContext, trace, explicitOperationName, queryString,
                documentAST, endHandler, submitted, seenErrors, agent>>

vars == <<now, ticks, wall, startHrTime, stopped, heap, nodes, handles, returned, fieldLog,
          last, tracerVars>>

----------------------------------------------------------------------------
(* Bounds of the model *)
MaxNodes  == 3      \* Trace.Node objects allocated, the root included
MaxTicks  == 1      \* advances of the clock

(* Program constants *)
NanosPerSec == 1000000000
\* the clock's reading when the request arrives: the next nanosecond starts a new second
BootNanos == NanosPerSec - 1
NanosPerMilli == 1000000
MillisPerSec == 1000
\* the wall clock then: the next millisecond starts a new second
BootMillis == 2 * MillisPerSec - 1
Absent == -1        \* an offset of a Trace.Node that nothing has assigned yet

----------------------------------------------------------------------------
(* ResponsePath: graphql keeps {prev, key}; here the array of its keys.     *)
(* A key is a field name (string) or an array index (number).               *)
Name(s)  == [num |-> FALSE, s |-> s, n |-> 0]
Index(i) == [num |-> TRUE,  s |-> "", n |-> i]

FieldPaths ==
    { <<Name("a")>>, <<Name("b")>>,
      <<Name("a"), Name("b")>>,
      <<Name("a"), Index(0)>>,
      <<Name("a"), Index(0), Name("b")>> }

TypeNames == {"String"}
ParentTypeNames == {"Query"}

ErrorRecords == { [message |-> "boom", location |-> <<>>, json |-> "{\"message\":\"boom\"}"] }

\* an optional string or object: `undefined`/`null`, or a value
Undefined == [defined |-> FALSE, v |-> ""]
Str(s) == [defined |-> TRUE, v |-> s]
\* JavaScript's truthiness of it, and x || y
Truthy(x) == x.defined /\ x.v # ""
OrElse(x, y) == IF Truthy(x) THEN x ELSE y

\* a google.protobuf.Timestamp that is not set
NoTimestamp == [defined |-> FALSE, seconds |-> 0, nanos |-> 0]

\* an argument that is a path: `undefined`, or an array of keys
NoArg == [defined |-> FALSE, arr |-> <<>>]
PathArg(p) == [defined |-> TRUE, arr |-> p]

\* an end handle, named by the Node its closure holds
HandleArg(node) == [defined |-> TRUE, node |-> node]

\* path.prev: the empty array stands for `undefined`
Prev(path) == SubSeq(path, 1, Len(path) - 1)
\* path.key
Key(path) == path[Len(path)]

\* Array.prototype.join('.') over the keys: a number is printed in decimal
KeyString(k) == IF k.num THEN ToString(k.n) ELSE k.s

RECURSIVE Join(_)
Join(arr) ==
    IF Len(arr) = 0 THEN ""
    ELSE IF Len(arr) = 1 THEN KeyString(arr[1])
    ELSE Join(Prev(arr)) \o "." \o KeyString(Key(arr))

responsePathAsString(p) == IF Len(p) = 0 THEN "" ELSE Join(p)

rootResponsePath == responsePathAsString(<<>>)

----------------------------------------------------------------------------
(* The clock. process.hrtime() is [seconds, nanoseconds]; process.hrtime(t) *)
(* is the difference to an earlier reading, in the same form.               *)
HrTime(n) == <<n \div NanosPerSec, n % NanosPerSec>>

ProcessHrTime(t) ==
    LET cur == HrTime(now)
        s   == cur[1] - t[1]
        ns  == cur[2] - t[2]
    IN  IF ns < 0 THEN <<s - 1, ns + NanosPerSec>> ELSE <<s, ns>>

durationHrTimeToNanos(hrtime) == hrtime[1] * NanosPerSec + hrtime[2]

----------------------------------------------------------------------------
(* Trace.Node *)
NewTraceNode ==
    [idCase |-> "none", fieldName |-> "", index |-> 0,
     type |-> "", parentType |-> "",
     startTime |-> Absent, endTime |-> Absent,
     child |-> <<>>, error |-> <<>>]

rootNode == 1

\* the builder's graph: st = [heap, nodes]
RECURSIVE newNode(_, _)
RECURSIVE ensureParentNode(_, _)

\* a slip: the parent is looked up under the path itself, not under path.prev
ensureParentNodeOwnPath(st, path) ==
    LET parentPath == responsePathAsString(path)
    IN  IF parentPath \in DOMAIN st.nodes
        THEN [st |-> st, node |-> st.nodes[parentPath]]
        ELSE newNode(st, Prev(path))

\* a slip: a parent the map does not have is not made, the root stands in for it
ensureParentNodeOrRoot(st, path) ==
    LET parentPath == responsePathAsString(Prev(path))
    IN  IF parentPath \in DOMAIN st.nodes
        THEN [st |-> st, node |-> st.nodes[parentPath]]
        ELSE [st |-> st, node |-> rootNode]

ensureParentNode(st, path) ==
    LET parentPath == responsePathAsString(Prev(path))
    IN  IF parentPath \in DOMAIN st.nodes
        THEN [st |-> st, node |-> st.nodes[parentPath]]
        ELSE newNode(st, Prev(path))

\* a slip: the node is put in front of its parent's children (unshift for push)
newNodeUnshift(st, path) ==
    LET id   == Key(path)
        n    == Len(st.heap) + 1
        node == IF id.num
                THEN [NewTraceNode EXCEPT !.idCase = "index", !.index = id.n]
                ELSE [NewTraceNode EXCEPT !.idCase = "fieldName", !.fieldName = id.s]
        key  == responsePathAsString(path)
        st1  == [heap  |-> Append(st.heap, node),
                 nodes |-> [k \in DOMAIN st.nodes \cup {key} |->
                              IF k = key THEN n ELSE st.nodes[k]]]
        r    == ensureParentNode(st1, path)
        p    == r.node
    IN  [st   |-> [r.st EXCEPT !.heap[p].child = <<n>> \o @],
         node |-> n]

newNode(st, path) ==
    LET id   == Key(path)
        n    == Len(st.heap) + 1
        node == IF id.num
                THEN [NewTraceNode EXCEPT !.idCase = "index", !.index = id.n]
                ELSE [NewTraceNode EXCEPT !.idCase = "fieldName", !.fieldName = id.s]
        key  == responsePathAsString(path)
        st1  == [heap  |-> Append(st.heap, node),
                 nodes |-> [k \in DOMAIN st.nodes \cup {key} |->
                              IF k = key THEN n ELSE st.nodes[k]]]
        r    == ensureParentNode(st1, path)
        p    == r.node
    IN  [st   |-> [r.st EXCEPT !.heap[p].child = Append(@, n)],
         node |-> n]

----------------------------------------------------------------------------
BuilderInit ==
    /\ now = BootNanos
    /\ ticks = 0
    /\ wall = BootMillis
    /\ startHrTime = [set |-> FALSE, t |-> <<0, 0>>]
    /\ stopped = FALSE
    /\ heap = <<NewTraceNode>>
    /\ nodes = [k \in {rootResponsePath} |-> rootNode]
    /\ handles = {}
    /\ returned = [set |-> FALSE, durationNs |-> 0, rootNode |-> 0]
    /\ fieldLog = <<>>
    /\ last = [op |-> "new", threw |-> "", arg |-> NoArg]

\* the outcome of a call: `threw` is the message of the Error thrown, "" if none
Throw(op, msg) == last' = [op |-> op, threw |-> msg, arg |-> NoArg]
Ok(op, arg) == last' = [op |-> op, threw |-> "", arg |-> arg]

\* everything the builder owns or hands out, and the clock
builderState == <<now, ticks, wall, startHrTime, stopped, heap, nodes, handles, returned, fieldLog>>

\* time passes between handlers: one millisecond on both clocks
Tick ==
    /\ ticks < MaxTicks
    /\ now' = now + NanosPerMilli
    /\ wall' = wall + 1
    /\ ticks' = ticks + 1
    /\ Ok("tick", NoArg)
    /\ UNCHANGED <<startHrTime, stopped, heap, nodes, handles, returned, fieldLog>>

(* Each method of the builder is three definitions: the Error its checks    *)
(* throw ("" when they pass), what it does when they pass, and the call.    *)

\* a slip: no 'called twice' check, a second call captures a new origin
startTimingThrowsNoTwiceCheck ==
    IF stopped THEN "startTiming called after stopTiming!" ELSE ""

startTimingThrows ==
    IF startHrTime.set THEN "startTiming called twice!"
    ELSE IF stopped THEN "startTiming called after stopTiming!"
    ELSE ""

startTimingBody ==
    /\ startHrTime' = [set |-> TRUE, t |-> HrTime(now)]
    /\ UNCHANGED <<now, ticks, wall, stopped, heap, nodes, handles, returned, fieldLog>>

startTiming ==
    IF startTimingThrows # ""
    THEN Throw("startTiming", startTimingThrows) /\ UNCHANGED builderState
    ELSE startTimingBody /\ Ok("startTiming", NoArg)

willResolveFieldThrows ==
    IF ~startHrTime.set THEN "willResolveField called before startTiming!"
    ELSE IF stopped THEN "willResolveField called after stopTiming!"
    ELSE ""

\* info = [path, returnType, parentType]
willResolveFieldBody(info) ==
    LET r    == newNode([heap |-> heap, nodes |-> nodes], info.path)
        node == r.node
    IN  /\ Len(r.st.heap) <= MaxNodes
        /\ heap' = [r.st.heap EXCEPT
                      ![node].type = info.returnType,
                      ![node].parentType = info.parentType,
                      ![node].startTime =
                          durationHrTimeToNanos(ProcessHrTime(startHrTime.t))]
        /\ nodes' = r.st.nodes
        /\ handles' = handles \cup {node}
        /\ fieldLog' = Append(fieldLog, info.path)
        /\ UNCHANGED <<now, ticks, wall, startHrTime, stopped, returned>>

willResolveField(info) ==
    IF willResolveFieldThrows # ""
    THEN Throw("willResolveField", willResolveFieldThrows) /\ UNCHANGED builderState
    ELSE willResolveFieldBody(info) /\ Ok("willResolveField", PathArg(info.path))

\* a slip: the handle records the time since the field started, not since the
\* request started
endHandleRecordsDuration(node) ==
    /\ node \in handles
    /\ heap' = [heap EXCEPT ![node].endTime =
                   durationHrTimeToNanos(ProcessHrTime(startHrTime.t)) - heap[node].startTime]
    /\ Ok("endHandle", HandleArg(node))
    /\ UNCHANGED <<now, ticks, wall, startHrTime, stopped, nodes, handles, returned, fieldLog>>

\* a slip: the handles share one `node` variable, which holds the Node made last
endHandleSharedNode(node) ==
    /\ node \in handles
    /\ heap' = [heap EXCEPT ![Len(heap)].endTime =
                   durationHrTimeToNanos(ProcessHrTime(startHrTime.t))]
    /\ Ok("endHandle", HandleArg(node))
    /\ UNCHANGED <<now, ticks, wall, startHrTime, stopped, nodes, handles, returned, fieldLog>>

\* the closure willResolveField returned for `node`
endHandle(node) ==
    /\ node \in handles
    /\ heap' = [heap EXCEPT ![node].endTime =
                   durationHrTimeToNanos(ProcessHrTime(startHrTime.t))]
    /\ Ok("endHandle", HandleArg(node))
    /\ UNCHANGED <<now, ticks, wall, startHrTime, stopped, nodes, handles, returned, fieldLog>>

\* a slip: no 'after stopTiming' check
addErrorThrowsNoStoppedCheck ==
    IF ~startHrTime.set THEN "addError called before startTiming!" ELSE ""

addErrorThrows ==
    IF ~startHrTime.set THEN "addError called before startTiming!"
    ELSE IF stopped THEN "addError called after stopTiming!"
    ELSE ""

\* a slip: the path is ignored, every error goes to the root node
addErrorTargetRoot(nodeMap, path) == rootNode

\* the node addError picks; path = [defined, arr]
addErrorTarget(nodeMap, path) ==
    IF path.defined /\ Join(path.arr) \in DOMAIN nodeMap
    THEN nodeMap[Join(path.arr)]
    ELSE rootNode

\* node.error.push(error), on the graph h
pushError(h, path, error) ==
    [h EXCEPT ![addErrorTarget(nodes, path)].error = Append(@, error)]

\* the host reports each error it raised once
Reported(error) ==
    \E n \in 1..Len(heap) : \E i \in 1..Len(heap[n].error) : heap[n].error[i] = error

addErrorBody(path, error) ==
    /\ heap' = pushError(heap, path, error)
    /\ UNCHANGED <<now, ticks, wall, startHrTime, stopped, nodes, handles, returned, fieldLog>>

addError(path, error) ==
    IF addErrorThrows # ""
    THEN Throw("addError", addErrorThrows) /\ UNCHANGED builderState
    ELSE ~Reported(error) /\ addErrorBody(path, error) /\ Ok("addError", path)

\* a slip: no 'called twice' check
stopTimingThrowsNoTwiceCheck ==
    IF ~startHrTime.set THEN "stopTiming called before startTiming!" ELSE ""

stopTimingThrows ==
    IF ~startHrTime.set THEN "stopTiming called before startTiming!"
    ELSE IF stopped THEN "stopTiming called twice!"
    ELSE ""

\* the value stopTiming returns
stopTimingResult ==
    [set |-> TRUE,
     durationNs |-> durationHrTimeToNanos(ProcessHrTime(startHrTime.t)),
     rootNode |-> rootNode]

stopTimingBody ==
    /\ stopped' = TRUE
    /\ returned' = stopTimingResult
    /\ UNCHANGED <<now, ticks, wall, startHrTime, heap, nodes, handles, fieldLog>>

stopTiming ==
    IF stopTimingThrows # ""
    THEN Throw("stopTiming", stopTimingThrows) /\ UNCHANGED builderState
    ELSE stopTimingBody /\ Ok("stopTiming", NoArg)

ResolveInfos ==
    [path : FieldPaths, returnType : TypeNames, parentType : ParentTypeNames]

ErrorPaths == {NoArg, PathArg(<<>>)} \cup {PathArg(p) : p \in FieldPaths}


----------------------------------------------------------------------------
(* EngineReportingExtension: the request tracer *)

\* new Trace(): the protobuf defaults
NewTrace ==
    [startTime |-> NoTimestamp, endTime |-> NoTimestamp,
     durationNs |-> 0, root |-> 0,
     http |-> [defined |-> FALSE, method |-> "", requestHeaders |-> <<>>],
     details |-> [defined |-> FALSE, variablesJson |-> <<>>],
     clientName |-> "", clientVersion |-> "", clientReferenceId |-> "",
     persistedQueryHit |-> FALSE, persistedQueryRegister |-> FALSE,
     fullQueryCacheHit |-> FALSE, forbiddenOperation |-> FALSE,
     registeredOperation |-> FALSE]

\* obj[key] = value on a JavaScript object used as a map
MapSet(m, k, v) == [x \in DOMAIN m \cup {k} |-> IF x = k THEN v ELSE m[x]]

\* String.prototype.toLowerCase, on the header names of the model
toLowerCase(s) ==
    CASE s = "X-Secret" -> "x-secret"
      [] s = "Authorization" -> "authorization"
      [] s = "Accept" -> "accept"
      [] s = "Cookie" -> "cookie"
      [] s = "Password" -> "password"
      [] OTHER -> s

\* Trace.HTTP.Method[method] || Trace.HTTP.Method.UNKNOWN
TraceHttpMethods ==
    {"UNKNOWN", "OPTIONS", "GET", "HEAD", "POST", "PUT", "DELETE", "TRACE", "CONNECT", "PATCH"}
httpMethod(method) == IF method \in TraceHttpMethods THEN method ELSE "UNKNOWN"

\* options.privateHeaders / options.privateVariables: undefined, a boolean or an array
NoOption == [kind |-> "undefined", b |-> FALSE, names |-> <<>>]
BoolOption(b) == [kind |-> "boolean", b |-> b, names |-> <<>>]
ArrayOption(names) == [kind |-> "array", b |-> FALSE, names |-> names]
IsTrue(opt) == opt.kind = "boolean" /\ opt.b

\* a slip: the names are compared as they are written
somePrivateHeaderExact(opt, key) ==
    /\ opt.kind = "array"
    /\ \E i \in 1..Len(opt.names) : opt.names[i] = key

\* privateHeaders.some(h => h.toLowerCase() === key.toLowerCase())
somePrivateHeader(opt, key) ==
    /\ opt.kind = "array"
    /\ \E i \in 1..Len(opt.names) : toLowerCase(opt.names[i]) = toLowerCase(key)

\* the for loop over request.headers, from entry i on; headers = <<[key, value], ...>>
RECURSIVE headersLoop(_, _, _, _)
headersLoop(opt, headers, i, acc) ==
    IF i > Len(headers) THEN acc
    ELSE LET key   == headers[i].key
             value == headers[i].value
         IN  IF somePrivateHeader(opt, key)
             THEN headersLoop(opt, headers, i + 1, acc)
             ELSE IF key \in {"authorization", "cookie", "set-cookie"}
             THEN headersLoop(opt, headers, i + 1, acc)
             ELSE headersLoop(opt, headers, i + 1, MapSet(acc, key, <<value>>))

\* JSON.stringify of a variable's value; it throws on a circular structure
JSONStringifyThrows(value) == value.kind = "circular"
JSONStringify(value) ==
    IF value.kind = "string" THEN "\"" \o value.s \o "\""
    ELSE ToString(value.n)

StringValue(s) == [kind |-> "string", s |-> s, n |-> 0]
NumberValue(n) == [kind |-> "number", s |-> "", n |-> n]
CircularValue  == [kind |-> "circular", s |-> "", n |-> 0]

\* a slip: the names are compared as header names are, ignoring case
includesNameIgnoreCase(opt, name) ==
    opt.kind = "array" /\ \E i \in 1..Len(opt.names) : toLowerCase(opt.names[i]) = toLowerCase(name)

\* privateVariables.includes(name)
includesName(opt, name) ==
    opt.kind = "array" /\ \E i \in 1..Len(opt.names) : opt.names[i] = name

\* Object.keys(variables).forEach, from entry i on; variables = <<[name, value], ...>>
RECURSIVE variablesLoop(_, _, _, _)
variablesLoop(opt, variables, i, acc) ==
    IF i > Len(variables) THEN acc
    ELSE LET name == variables[i].name
             json == IF includesName(opt, name) THEN ""
                     ELSE IF JSONStringifyThrows(variables[i].value)
                     THEN JSONStringify(StringValue("[Unable to convert value to JSON]"))
                     ELSE JSONStringify(variables[i].value)
         IN  variablesLoop(opt, variables, i + 1, MapSet(acc, name, json))

\* Headers.get(name): the value of the header, null when there is none
headersGet(headers, name) ==
    IF \E i \in 1..Len(headers) : headers[i].key = name
    THEN Str(headers[CHOOSE i \in 1..Len(headers) :
                        /\ headers[i].key = name
                        /\ \A j \in 1..(i - 1) : headers[j].key # name].value)
    ELSE Undefined

NoClientInfo == [clientName |-> Undefined, clientVersion |-> Undefined,
                 clientReferenceId |-> Undefined]

\* a slip: a field the headers lack is filled in from the extension's clientInfo
defaultGenerateClientInfoMerged(request) ==
    LET fromHeaders ==
            [clientName |-> headersGet(request.http.headers, "apollographql-client-name"),
             clientVersion |-> headersGet(request.http.headers, "apollographql-client-version"),
             clientReferenceId |->
                 headersGet(request.http.headers, "apollographql-client-reference-id")]
        fallback ==
            IF request.extensions.defined /\ request.extensions.clientInfo.defined
            THEN request.extensions.clientInfo.info
            ELSE NoClientInfo
    IN  [clientName |-> OrElse(fromHeaders.clientName, fallback.clientName),
         clientVersion |-> OrElse(fromHeaders.clientVersion, fallback.clientVersion),
         clientReferenceId |-> OrElse(fromHeaders.clientReferenceId, fallback.clientReferenceId)]

\* request = [http : [defined, headers], extensions : [defined, clientInfo : [defined, info]]]
defaultGenerateClientInfo(request) ==
    IF /\ request.http.defined
       /\ \/ Truthy(headersGet(request.http.headers, "apollographql-client-name"))
          \/ Truthy(headersGet(request.http.headers, "apollographql-client-version"))
          \/ Truthy(headersGet(request.http.headers, "apollographql-client-reference-id"))
    THEN [clientName |-> headersGet(request.http.headers, "apollographql-client-name"),
          clientVersion |-> headersGet(request.http.headers, "apollographql-client-version"),
          clientReferenceId |->
              headersGet(request.http.headers, "apollographql-client-reference-id")]
    ELSE IF request.extensions.defined /\ request.extensions.clientInfo.defined
    THEN request.extensions.clientInfo.info
    ELSE NoClientInfo

\* Converts a JS Date (milliseconds) into a Timestamp
dateToTimestamp(totalMillis) ==
    LET millis == totalMillis % MillisPerSec
    IN  [defined |-> TRUE,
         seconds |-> (totalMillis - millis) \div MillisPerSec,
         nanos   |-> millis * NanosPerMilli]

\* the Trace as requestDidStart leaves it when startTiming did not throw
\* o = [request : [method, headers], queryString, parsedQuery, variables]
traceAfterStart(o) ==
    LET requestHeaders ==
            IF IsTrue(options.privateHeaders) THEN <<>>
            ELSE headersLoop(options.privateHeaders, o.request.headers, 1, <<>>)
        metrics == requestContext.metrics
        clientInfo == defaultGenerateClientInfo(requestContext.request)
    IN  [trace EXCEPT
           !.startTime = dateToTimestamp(wall),
           !.http = [defined |-> TRUE, method |-> httpMethod(o.request.method),
                     requestHeaders |-> requestHeaders],
           !.persistedQueryHit =
               IF ~IsTrue(options.privateHeaders) /\ metrics.persistedQueryHit
               THEN TRUE ELSE @,
           !.persistedQueryRegister =
               IF ~IsTrue(options.privateHeaders) /\ metrics.persistedQueryRegister
               THEN TRUE ELSE @,
           !.details =
               IF ~IsTrue(options.privateVariables) /\ o.variables.defined
               THEN [defined |-> TRUE,
                     variablesJson |->
                         variablesLoop(options.privateVariables, o.variables.vars, 1, <<>>)]
               ELSE @,
           !.clientVersion = OrElse(clientInfo.clientVersion, Str("")).v,
           !.clientReferenceId = OrElse(clientInfo.clientReferenceId, Str("")).v,
           !.clientName = OrElse(clientInfo.clientName, Str("")).v]

requestDidStart(o) ==
    IF startTimingThrows # ""
    THEN /\ trace' = [trace EXCEPT !.startTime = dateToTimestamp(wall)]
         /\ Throw("requestDidStart", startTimingThrows)
         /\ UNCHANGED builderState
         /\ UNCHANGED <<agent, options, requestContext, explicitOperationName, queryString,
                        documentAST, endHandler, submitted, seenErrors>>
    ELSE /\ startTimingBody
         /\ queryString' = o.queryString
         /\ documentAST' = o.parsedQuery
         /\ trace' = traceAfterStart(o)
         /\ endHandler' = TRUE
         /\ Ok("requestDidStart", NoArg)
         /\ UNCHANGED <<agent, options, requestContext, explicitOperationName, submitted, seenErrors>>

\* the arguments the end handler gives addTrace, with the Trace as it then stands
addTraceArgs(t) ==
    [operationName |->
         OrElse(OrElse(explicitOperationName, requestContext.operationName), Str("")).v,
     queryHash |-> requestContext.queryHash,
     documentAST |-> OrElse(documentAST, requestContext.document),
     queryString |-> OrElse(queryString, Str("")).v,
     trace |-> t]

\* a slip: addTrace is called before stopTiming has had its say
requestDidEndSubmitFirst ==
    /\ endHandler
    /\ IF stopTimingThrows # ""
       THEN /\ Throw("requestDidEnd", stopTimingThrows)
            /\ UNCHANGED builderState
            /\ UNCHANGED trace
       ELSE /\ stopTimingBody
            /\ trace' = [trace EXCEPT
                           !.durationNs = stopTimingResult.durationNs,
                           !.root = stopTimingResult.rootNode,
                           !.endTime = dateToTimestamp(wall),
                           !.fullQueryCacheHit = requestContext.metrics.responseCacheHit,
                           !.forbiddenOperation = requestContext.metrics.forbiddenOperation,
                           !.registeredOperation = requestContext.metrics.registeredOperation]
            /\ Ok("requestDidEnd", NoArg)
    /\ submitted' = Append(submitted, addTraceArgs(trace'))
    /\ UNCHANGED <<agent, options, requestContext, explicitOperationName, queryString,
                   documentAST, endHandler, seenErrors>>

\* the closure requestDidStart returned
requestDidEnd ==
    /\ endHandler
    /\ IF stopTimingThrows # ""
       THEN /\ Throw("requestDidEnd", stopTimingThrows)
            /\ UNCHANGED builderState
            /\ UNCHANGED <<trace, submitted>>
       ELSE /\ stopTimingBody
            /\ trace' = [trace EXCEPT
                           !.durationNs = stopTimingResult.durationNs,
                           !.root = stopTimingResult.rootNode,
                           !.endTime = dateToTimestamp(wall),
                           !.fullQueryCacheHit = requestContext.metrics.responseCacheHit,
                           !.forbiddenOperation = requestContext.metrics.forbiddenOperation,
                           !.registeredOperation = requestContext.metrics.registeredOperation]
            /\ submitted' = Append(submitted, addTraceArgs(trace'))
            /\ Ok("requestDidEnd", NoArg)
    /\ UNCHANGED <<agent, options, requestContext, explicitOperationName, queryString,
                   documentAST, endHandler, seenErrors>>

\* a slip: the name is stored whether or not it is empty
executionDidStartAlwaysStores(executionArgs) ==
    /\ explicitOperationName' = executionArgs.operationName
    /\ documentAST' = executionArgs.document
    /\ Ok("executionDidStart", executionArgs.operationName)
    /\ UNCHANGED builderState
    /\ UNCHANGED <<agent, options, requestContext, trace, queryString, endHandler, submitted,
                   seenErrors>>

\* executionArgs = [operationName, document]
executionDidStart(executionArgs) ==
    /\ explicitOperationName' =
           IF Truthy(executionArgs.operationName)
           THEN executionArgs.operationName
           ELSE explicitOperationName
    /\ documentAST' = executionArgs.document
    /\ Ok("executionDidStart", executionArgs.operationName)
    /\ UNCHANGED builderState
    /\ UNCHANGED <<agent, options, requestContext, trace, queryString, endHandler, submitted,
                   seenErrors>>

\* the user's rewriteError function: what it returns for the clone of err
\*   [kind |-> "null"], [kind |-> "other"] (not a GraphQLError) or a GraphQLError
userRewriteError(fn, err) ==
    CASE fn = "drop"       -> [kind |-> "null", error |-> err]
      [] fn = "dropNoPath" -> IF err.path.defined
                              THEN [kind |-> "error",
                                    error |-> [err EXCEPT !.message = "rewritten"]]
                              ELSE [kind |-> "null", error |-> err]
      [] fn = "string"     -> [kind |-> "other", error |-> err]
      [] fn = "message"    -> [kind |-> "error",
                               error |-> [err EXCEPT !.message = "rewritten"]]
      [] fn = "moveToRoot" -> [kind |-> "error",
                               error |-> [err EXCEPT !.message = "rewritten",
                                                     !.path = NoArg]]
      [] OTHER             -> [kind |-> "other", error |-> err]

\* a GraphQLError: [message, path, locations, extensions]; the masked object has
\* a message alone
MaskedError ==
    [message |-> "<masked>", path |-> NoArg,
     locations |-> [defined |-> FALSE, at |-> <<>>], extensions |-> Undefined]

\* a slip: the user's error is reported as returned, not rebuilt from the original
rewriteErrorAsReturned(err) ==
    IF options.maskErrorDetails
    THEN [kind |-> "error", error |-> MaskedError]
    ELSE IF options.rewriteError # "undefined"
    THEN LET rewrittenError == userRewriteError(options.rewriteError, err)
         IN  IF rewrittenError.kind = "null" THEN [kind |-> "null", error |-> err]
             ELSE IF rewrittenError.kind # "error" THEN [kind |-> "error", error |-> err]
             ELSE [kind |-> "error", error |-> rewrittenError.error]
    ELSE [kind |-> "error", error |-> err]

\* rewriteError(err): [kind |-> "null"] or [kind |-> "error", error |-> ...]
rewriteError(err) ==
    IF options.maskErrorDetails
    THEN [kind |-> "error", error |-> MaskedError]
    ELSE IF options.rewriteError # "undefined"
    THEN LET rewrittenError == userRewriteError(options.rewriteError, err)
         IN  IF rewrittenError.kind = "null" THEN [kind |-> "null", error |-> err]
             ELSE IF rewrittenError.kind # "error" THEN [kind |-> "error", error |-> err]
             ELSE [kind |-> "error",
                   error |-> [err EXCEPT !.message = rewrittenError.error.message]]
    ELSE [kind |-> "error", error |-> err]

\* JSON.stringify(error): the enumerable fields that are set
JSONStringifyError(error) ==
    "{\"message\":\"" \o error.message \o "\""
      \o (IF error.locations.defined THEN ",\"locations\":[..]" ELSE "")
      \o (IF error.path.defined THEN ",\"path\":\"" \o Join(error.path.arr) \o "\"" ELSE "")
      \o (IF error.extensions.defined
          THEN ",\"extensions\":\"" \o error.extensions.v \o "\"" ELSE "")
      \o "}"

\* new Trace.Error(...) of the extension's addError
traceError(error) ==
    [message  |-> error.message,
     location |-> IF error.locations.defined THEN error.locations.at ELSE <<>>,
     json     |-> JSONStringifyError(error)]

\* errors.forEach, from entry i on, on the graph h: the graph and the Error thrown
RECURSIVE didEncounterErrorsLoop(_, _, _)
didEncounterErrorsLoop(h, errors, i) ==
    IF i > Len(errors) THEN [heap |-> h, threw |-> ""]
    ELSE LET errorForReporting == rewriteError(errors[i])
         IN  IF errorForReporting.kind = "null"
             THEN didEncounterErrorsLoop(h, errors, i + 1)
             ELSE IF addErrorThrows # ""
             THEN [heap |-> h, threw |-> addErrorThrows]
             ELSE didEncounterErrorsLoop(
                      pushError(h, errorForReporting.error.path,
                                traceError(errorForReporting.error)),
                      errors, i + 1)

didEncounterErrors(errors) ==
    LET r == didEncounterErrorsLoop(heap, errors, 1)
    IN  /\ \A i \in 1..Len(errors) : errors[i] \notin seenErrors
        /\ heap' = r.heap
        /\ seenErrors' = seenErrors \cup {errors[i] : i \in 1..Len(errors)}
        /\ last' = [op |-> "didEncounterErrors", threw |-> r.threw, arg |-> NoArg]
        /\ UNCHANGED <<now, ticks, wall, startHrTime, stopped, nodes, handles, returned,
                       fieldLog>>
        /\ UNCHANGED <<agent, options, requestContext, trace, explicitOperationName, queryString,
                       documentAST, endHandler, submitted>>

\* the extension's willResolveField hands the call to the builder
extWillResolveField(info) == willResolveField(info) /\ UNCHANGED tracerVars

\* the request pipeline, between requestDidStart and the end handler: it parses
\* the document, finds the operation and fills in the metrics
pipelineProgress(outcome) ==
    /\ endHandler /\ ~stopped
    /\ ~requestContext.document.defined
    /\ requestContext' = [requestContext EXCEPT
                            !.document = outcome.document,
                            !.operationName = outcome.operationName,
                            !.metrics.responseCacheHit = outcome.responseCacheHit,
                            !.metrics.forbiddenOperation = outcome.forbiddenOperation,
                            !.metrics.registeredOperation = outcome.registeredOperation]
    /\ Ok("pipeline", NoArg)
    /\ UNCHANGED builderState
    /\ UNCHANGED <<agent, options, trace, explicitOperationName, queryString, documentAST,
                   endHandler, submitted, seenErrors>>

(* The requests and configurations the tracer is checked with *)
DefaultOptions ==
    [privateHeaders |-> NoOption, privateVariables |-> NoOption,
     maskErrorDetails |-> FALSE, rewriteError |-> "undefined"]

Header(k, v) == [key |-> k, value |-> v]
\* a Headers object iterates its names in lower case
RequestHeaders ==
    <<Header("accept", "json"), Header("authorization", "token"), Header("x-secret", "s")>>

NoMetrics ==
    [persistedQueryHit |-> FALSE, persistedQueryRegister |-> FALSE,
     responseCacheHit |-> FALSE, forbiddenOperation |-> FALSE,
     registeredOperation |-> FALSE]

NewRequestContext ==
    [request |-> [http |-> [defined |-> TRUE, headers |-> RequestHeaders],
                  extensions |-> [defined |-> FALSE,
                                  clientInfo |-> [defined |-> FALSE, info |-> NoClientInfo]]],
     metrics |-> NoMetrics,
     operationName |-> Undefined,
     document |-> Undefined,
     queryHash |-> "hash"]

RequestArgs ==
    { [request |-> [method |-> "POST", headers |-> RequestHeaders],
       queryString |-> Str("{a{b}}"),
       parsedQuery |-> Undefined,
       variables |-> [defined |-> TRUE,
                      vars |-> <<[name |-> "user", value |-> StringValue("bob")]>>]] }

ExecutionArgs ==
    [operationName : {Undefined, Str(""), Str("Q")}, document : {Str("docE")}]

TracerInfos ==
    [path : {<<Name("a")>>},
     returnType : TypeNames, parentType : ParentTypeNames]

GraphQLErrors ==
    { [message |-> "boom", path |-> PathArg(<<Name("a")>>),
       locations |-> [defined |-> TRUE, at |-> <<[line |-> 1, column |-> 3]>>],
       extensions |-> Undefined] }

ErrorLists == {<<e>> : e \in GraphQLErrors}

PipelineOutcomes ==
    { [document |-> Str("docP"), operationName |-> Str("P"),
       responseCacheHit |-> FALSE, forbiddenOperation |-> FALSE,
       registeredOperation |-> TRUE],
      [document |-> Str("docP"), operationName |-> Undefined,
       responseCacheHit |-> TRUE, forbiddenOperation |-> FALSE,
       registeredOperation |-> FALSE],
      [document |-> Str("docP"), operationName |-> Undefined,
       responseCacheHit |-> FALSE, forbiddenOperation |-> TRUE,
       registeredOperation |-> FALSE] }

\* the pipeline settles the persisted-query signals before it calls requestDidStart
PersistedQuerySignals == {<<FALSE, FALSE>>, <<TRUE, FALSE>>, <<FALSE, TRUE>>}

\* the state of a new extension, but for its options and the request at hand
ExtensionInit ==
    /\ trace = NewTrace
    /\ explicitOperationName = Undefined
    /\ queryString = Undefined
    /\ documentAST = Undefined
    /\ endHandler = FALSE
    /\ submitted = <<>>
    /\ seenErrors = {}

Init ==
    /\ BuilderInit
    /\ ExtensionInit
    /\ agent = "ready"
    /\ options = DefaultOptions
    /\ requestContext = NewRequestContext

\* the builder on its own, driven directly
Next ==
    \/ Tick /\ UNCHANGED tracerVars
    \/ startTiming /\ UNCHANGED tracerVars
    \/ \E info \in ResolveInfos : willResolveField(info) /\ UNCHANGED tracerVars
    \/ \E n \in 1..MaxNodes : endHandle(n) /\ UNCHANGED tracerVars
    \/ \E path \in ErrorPaths, error \in ErrorRecords :
          addError(path, error) /\ UNCHANGED tracerVars
    \/ stopTiming /\ UNCHANGED tracerVars

Spec == Init /\ [][Next]_vars

\* the tracer with its builder, one request under the default options
TracerNext ==
    \/ Tick /\ UNCHANGED tracerVars
    \/ \E o \in RequestArgs : requestDidStart(o)
    \/ \E executionArgs \in ExecutionArgs : executionDidStart(executionArgs)
    \/ \E info \in TracerInfos : extWillResolveField(info)
    \/ \E n \in 1..MaxNodes : endHandle(n) /\ UNCHANGED tracerVars
    \/ \E errors \in ErrorLists : didEncounterErrors(errors)
    \/ requestDidEnd

TracerSpec == Init /\ [][TracerNext]_vars

\* the request's metadata: every header redaction option and persisted-query
\* signal, and the pipeline filling in the request context
RequestInit ==
    /\ BuilderInit
    /\ ExtensionInit
    /\ agent = "ready"
    /\ \E ph \in {NoOption, BoolOption(FALSE), BoolOption(TRUE), ArrayOption(<<"X-Secret">>)} :
          options = [DefaultOptions EXCEPT !.privateHeaders = ph]
    /\ \E pq \in PersistedQuerySignals :
          requestContext = [NewRequestContext EXCEPT
                              !.metrics.persistedQueryHit = pq[1],
                              !.metrics.persistedQueryRegister = pq[2]]

RequestNext ==
    \/ Tick /\ UNCHANGED tracerVars
    \/ \E o \in RequestArgs : requestDidStart(o)
    \/ \E executionArgs \in ExecutionArgs : executionDidStart(executionArgs)
    \/ \E outcome \in PipelineOutcomes : pipelineProgress(outcome)
    \/ requestDidEnd

RequestSpec == RequestInit /\ [][RequestNext]_vars

\* the request's snapshot: every redaction option, with requests that differ in
\* their variables, client headers and extensions
ClientHeaders ==
    { <<>>,
      <<Header("apollographql-client-name", "web"),
        Header("apollographql-client-version", "1.0")>>,
      <<Header("apollographql-client-reference-id", "ref")>>,
      <<Header("apollographql-client-name", "")>> }

RequestExtensions ==
    { [defined |-> FALSE, clientInfo |-> [defined |-> FALSE, info |-> NoClientInfo]],
      [defined |-> TRUE,  clientInfo |-> [defined |-> FALSE, info |-> NoClientInfo]],
      [defined |-> TRUE,
       clientInfo |-> [defined |-> TRUE,
                       info |-> [clientName |-> Str("legacy"), clientVersion |-> Undefined,
                                 clientReferenceId |-> Str("legacyRef")]]] }

RequestVariables ==
    { [defined |-> FALSE, vars |-> <<>>],
      [defined |-> TRUE,
       vars |-> <<[name |-> "password", value |-> StringValue("x")],
                  [name |-> "user", value |-> StringValue("bob")]>>],
      [defined |-> TRUE,
       vars |-> <<[name |-> "Password", value |-> StringValue("")],
                  [name |-> "count", value |-> NumberValue(7)]>>],
      [defined |-> TRUE,
       vars |-> <<[name |-> "self", value |-> CircularValue]>>] }

PrivateHeadersOptions ==
    {NoOption, BoolOption(FALSE), BoolOption(TRUE), ArrayOption(<<"X-Secret">>)}

PrivateVariablesOptions ==
    {NoOption, BoolOption(FALSE), BoolOption(TRUE), ArrayOption(<<"password">>)}

\* what the pipeline passes to requestDidStart for the request at hand
PipelineRequestArgs ==
    { [request |-> [method |-> "POST", headers |-> requestContext.request.http.headers],
       queryString |-> Str("{a{b}}"),
       parsedQuery |-> Undefined,
       variables |-> requestContext.request.variables] }

SnapshotInit ==
    /\ BuilderInit
    /\ ExtensionInit
    /\ agent = "ready"
    /\ \E ph \in PrivateHeadersOptions, pv \in PrivateVariablesOptions :
          options = [DefaultOptions EXCEPT !.privateHeaders = ph, !.privateVariables = pv]
    /\ \E ch \in ClientHeaders, ext \in RequestExtensions, v \in RequestVariables :
          requestContext =
              [NewRequestContext EXCEPT
                 !.request = [http |-> [defined |-> TRUE, headers |-> RequestHeaders \o ch],
                              extensions |-> ext,
                              variables |-> v]]

SnapshotNext ==
    \/ Tick /\ UNCHANGED tracerVars
    \/ \E o \in PipelineRequestArgs : requestDidStart(o)
    \/ requestDidEnd

SnapshotSpec == SnapshotInit /\ [][SnapshotNext]_vars

\* the error policy: every combination of maskErrorDetails and rewriteError, with
\* errors that have a path with a Node, a path without one, or no path
RewriteFunctions == {"undefined", "drop", "dropNoPath", "string", "message", "moveToRoot"}

PolicyErrors ==
    { [message |-> "boom", path |-> PathArg(<<Name("a")>>),
       locations |-> [defined |-> TRUE, at |-> <<[line |-> 1, column |-> 3]>>],
       extensions |-> Str("CODE")],
      [message |-> "lost", path |-> PathArg(<<Name("b")>>),
       locations |-> [defined |-> FALSE, at |-> <<>>],
       extensions |-> Undefined],
      [message |-> "bad", path |-> NoArg,
       locations |-> [defined |-> FALSE, at |-> <<>>],
       extensions |-> Undefined] }

PolicyErrorLists ==
    {<<e>> : e \in PolicyErrors}
      \cup {<<pair[1], pair[2]>> :
                pair \in {pr \in PolicyErrors \X PolicyErrors : pr[1] # pr[2]}}

ErrorInit ==
    /\ BuilderInit
    /\ ExtensionInit
    /\ agent = "ready"
    /\ \E mask \in BOOLEAN, fn \in RewriteFunctions :
          options = [DefaultOptions EXCEPT !.maskErrorDetails = mask, !.rewriteError = fn]
    /\ requestContext = NewRequestContext

ErrorNext ==
    \/ \E o \in RequestArgs : requestDidStart(o)
    \/ \E info \in TracerInfos : extWillResolveField(info)
    \/ \E errors \in PolicyErrorLists : didEncounterErrors(errors)
    \/ requestDidEnd

ErrorSpec == ErrorInit /\ [][ErrorNext]_vars

----------------------------------------------------------------------------
(* EngineReportingAgent's configuration (agent.ts): handleLegacyOptions turns *)
(* the deprecated privateVariables / privateHeaders into sendVariableValues   *)
(* / sendHeaders. The agent's constructor runs it on the options it hands to  *)
(* every extension.                                                           *)

\* sendVariableValues / sendHeaders: undefined, { sendAll: true },
\* { sendNone: true }, { exceptNames: [...] } or true
NoSend == [kind |-> "undefined", names |-> <<>>]
SendAll == [kind |-> "sendAll", names |-> <<>>]
SendNone == [kind |-> "sendNone", names |-> <<>>]
ExceptNames(names) == [kind |-> "exceptNames", names |-> names]
SendTrue == [kind |-> "true", names |-> <<>>]

\* a slip: sendAll and sendNone are the wrong way round
makeSendValuesBaseOptionsFromLegacySwapped(legacyPrivateOption) ==
    IF legacyPrivateOption.kind = "array" THEN ExceptNames(legacyPrivateOption.names)
    ELSE IF legacyPrivateOption.b THEN SendAll
    ELSE SendNone

\* the new form of a legacy option that is set
makeSendValuesBaseOptionsFromLegacy(legacyPrivateOption) ==
    IF legacyPrivateOption.kind = "array" THEN ExceptNames(legacyPrivateOption.names)
    ELSE IF legacyPrivateOption.b THEN SendNone
    ELSE SendAll

\* a slip: only the variables' options are checked for a conflict
handleLegacyOptionsThrowsVariablesOnly(o) ==
    IF o.privateVariables.kind # "undefined" /\ o.sendVariableValues.kind # "undefined"
    THEN "You have set both the 'sendVariableValues' and the deprecated 'privateVariables' options."
    ELSE ""

handleLegacyOptionsThrows(o) ==
    IF o.privateVariables.kind # "undefined" /\ o.sendVariableValues.kind # "undefined"
    THEN "You have set both the 'sendVariableValues' and the deprecated 'privateVariables' options."
    ELSE IF o.privateHeaders.kind # "undefined" /\ o.sendHeaders.kind # "undefined"
    THEN "You have set both the 'sendHeaders' and the deprecated 'privateHeaders' options."
    ELSE ""

\* the options object as handleLegacyOptions leaves it when it does not throw
handleLegacyOptions(o) ==
    LET o1 == IF o.privateVariables.kind # "undefined"
              THEN [o EXCEPT
                      !.sendVariableValues =
                          makeSendValuesBaseOptionsFromLegacy(o.privateVariables),
                      !.privateVariables = NoOption]
              ELSE o
    IN  IF o1.privateHeaders.kind # "undefined"
        THEN [o1 EXCEPT
                !.sendHeaders = makeSendValuesBaseOptionsFromLegacy(o1.privateHeaders),
                !.privateHeaders = NoOption]
        ELSE o1

\* new EngineReportingAgent(options)
newEngineReportingAgent ==
    /\ agent = "none"
    /\ IF handleLegacyOptionsThrows(options) # ""
       THEN /\ Throw("handleLegacyOptions", handleLegacyOptionsThrows(options))
            /\ agent' = "failed"
            /\ UNCHANGED options
       ELSE /\ options' = handleLegacyOptions(options)
            /\ agent' = "ready"
            /\ Ok("handleLegacyOptions", NoArg)
    /\ UNCHANGED builderState
    /\ UNCHANGED <<requestContext, trace, explicitOperationName, queryString, documentAST,
                   endHandler, submitted, seenErrors>>

LegacyOptions == {NoOption, BoolOption(FALSE), BoolOption(TRUE), ArrayOption(<<"t1", "t2">>)}
SendVariableValuesOptions == {NoSend, SendNone, ExceptNames(<<"test">>)}
SendHeadersOptions == {NoSend, SendNone, SendTrue}

ConfigInit ==
    /\ BuilderInit
    /\ ExtensionInit
    /\ agent = "none"
    /\ \E pv \in LegacyOptions, sv \in SendVariableValuesOptions,
          ph \in LegacyOptions, sh \in SendHeadersOptions :
          options = [privateVariables |-> pv, sendVariableValues |-> sv,
                     privateHeaders |-> ph, sendHeaders |-> sh,
                     maskErrorDetails |-> FALSE, rewriteError |-> "undefined"]
    /\ requestContext = NewRequestContext

\* requests are served by an agent that was constructed
ConfigNext ==
    \/ newEngineReportingAgent
    \/ agent = "ready" /\ Tick /\ UNCHANGED tracerVars
    \/ agent = "ready" /\ \E o \in RequestArgs : requestDidStart(o)
    \/ agent = "ready" /\ requestDidEnd

ConfigSpec == ConfigInit /\ [][ConfigNext]_vars

----------------------------------------------------------------------------
(* The builder's lifecycle *)
NotStarted == ~startHrTime.set /\ ~stopped
Started    == startHrTime.set /\ ~stopped
Stopped    == stopped

Phase == IF stopped THEN 2 ELSE IF startHrTime.set THEN 1 ELSE 0

(* The tree of paths the successful willResolveField calls describe *)
Prefixes(p) == {SubSeq(p, 1, k) : k \in 0..Len(p)}
LoggedPaths == {fieldLog[i] : i \in 1..Len(fieldLog)}
TreePaths == {<<>>} \cup UNION {Prefixes(p) : p \in LoggedPaths}

\* p is q with at least one more key
Extends(p, q) == Len(p) > Len(q) /\ SubSeq(p, 1, Len(q)) = q

\* every path is started at most once, and never after one of its descendants
StartedOnceParentFirst ==
    \A i, j \in 1..Len(fieldLog) :
        i < j => fieldLog[i] # fieldLog[j] /\ ~Extends(fieldLog[i], fieldLog[j])

Occurrences(seq, x) == Cardinality({i \in 1..Len(seq) : seq[i] = x})

\* the segment identity of a node is the key k
HasIdentity(node, k) ==
    IF k.num THEN node.idCase = "index" /\ node.index = k.n
             ELSE node.idCase = "fieldName" /\ node.fieldName = k.s

----------------------------------------------------------------------------
\* C1: in every reachable state there is exactly one Node per ResponsePath: every
\* Node allocated is the Node the node map registers for some path and is
\* listed once among its parent's children, so a repeated willResolveField for a
\* path reuses the Node created first.
C1_OneNodePerPath ==
    /\ \A n \in 1..Len(heap) : \E k \in DOMAIN nodes : nodes[k] = n
    /\ \A n \in 1..Len(heap) : \A i, j \in 1..Len(heap[n].child) :
          i # j => LET x == heap[heap[n].child[i]]
                       y == heap[heap[n].child[j]]
                   IN  x.idCase # y.idCase \/ x.fieldName # y.fieldName \/ x.index # y.index

\* C2: when every path was started once and none before its parent, the tree
\* stopTiming returns is isomorphic to the tree of the started paths: one Node per
\* path, each Node a child (once) of the Node of its path minus the last key and
\* of no other Node, and carrying the last key as its field name or index.
C2_TreeIsomorphic ==
    (returned.set /\ StartedOnceParentFirst) =>
        /\ Len(heap) = Cardinality(TreePaths)
        /\ heap[returned.rootNode].idCase = "none"
        /\ \A p \in TreePaths : Join(p) \in DOMAIN nodes
        /\ \A p, q \in TreePaths : p # q => nodes[Join(p)] # nodes[Join(q)]
        /\ \A p \in TreePaths \ {<<>>} :
              LET n == nodes[Join(p)]
              IN  /\ HasIdentity(heap[n], Key(p))
                  /\ \A m \in 1..Len(heap) :
                        Occurrences(heap[m].child, n) =
                            IF m = nodes[Join(Prev(p))] THEN 1 ELSE 0
        /\ \A m \in 1..Len(heap) : Occurrences(heap[m].child, returned.rootNode) = 0

C2_Witness ==
    /\ returned.set
    /\ StartedOnceParentFirst
    /\ Len(heap) = 3
    /\ \E n \in 2..Len(heap) : heap[n].child # <<>>
    /\ \E n \in 2..Len(heap) : heap[n].startTime = Absent

\* C3: once the builder is stopped no call changes any Node of the tree.
C3_FrozenAfterStop == [][stopped => heap' = heap]_vars

\* C4: stopTiming fails before startTiming, succeeds on the first call while
\* Started (marking the builder stopped and returning the root Node), and every
\* later call throws and leaves the builder and the returned root as they were.
C4_StopTimingOnce ==
    [][last'.op = "stopTiming" =>
         IF Started
         THEN /\ last'.threw = ""
              /\ stopped'
              /\ returned'.set /\ returned'.rootNode = rootNode
              /\ heap' = heap
         ELSE /\ last'.threw # ""
              /\ UNCHANGED <<startHrTime, stopped, heap, nodes, returned>>]_vars

C4_Witness ==
    /\ last.op = "stopTiming"
    /\ last.threw = "stopTiming called twice!"
    /\ returned.set
    /\ Len(heap) > 1

\* C5: willResolveField and addError throw whenever the builder is not Started,
\* and a call that throws creates no Node and changes no Node and no map entry.
C5_CallsOutsideStartedFail ==
    [][last'.op \in {"willResolveField", "addError"} =>
         /\ ~Started => last'.threw # ""
         /\ last'.threw # "" => UNCHANGED <<heap, nodes, handles, fieldLog>>]_vars

C5_Witness ==
    /\ last.op = "addError"
    /\ last.threw = "addError called after stopTiming!"
    /\ Len(heap) > 1

\* C6: startTiming succeeds only from Not-Started; on a builder already started
\* or stopped it throws and keeps the time origin; the builder never moves back.
C6_StartTimingOnce ==
    [][/\ last'.op = "startTiming" =>
            IF NotStarted
            THEN last'.threw = "" /\ startHrTime'.set /\ startHrTime'.t = HrTime(now)
            ELSE last'.threw # "" /\ startHrTime' = startHrTime
       /\ Phase' >= Phase
       /\ startHrTime.set => startHrTime' = startHrTime]_vars

C6_Witness ==
    /\ last.op = "startTiming"
    /\ last.threw = "startTiming called twice!"
    /\ HrTime(now) # startHrTime.t

\* C7: a successful addError appends the error to exactly one Node, the Node
\* registered for the path if there is one and the root Node otherwise (path
\* undefined, empty or unregistered), and changes no other Node.
C7_ErrorOnOneNode ==
    [][(last'.op = "addError" /\ last'.threw = "") =>
         LET path   == last'.arg
             target == IF path.defined /\ \E k \in DOMAIN nodes : k = Join(path.arr)
                       THEN nodes[Join(path.arr)]
                       ELSE 1
         IN  /\ Len(heap') = Len(heap)
             /\ Len(heap'[target].error) = Len(heap[target].error) + 1
             /\ SubSeq(heap'[target].error, 1, Len(heap[target].error)) = heap[target].error
             /\ [heap'[target] EXCEPT !.error = heap[target].error] = heap[target]
             /\ \A n \in 1..Len(heap) : n # target => heap'[n] = heap[n]]_vars

C7_Witness ==
    /\ last.op = "addError"
    /\ last.threw = ""
    /\ last.arg.defined
    /\ last.arg.arr # <<>>
    /\ Join(last.arg.arr) \notin DOMAIN nodes
    /\ Len(heap) > 1
    /\ heap[rootNode].error # <<>>

\* C21: a successful willResolveField for path P leaves a Node registered for
\* every proper prefix of P; a prefix that had a Node keeps it, a prefix that had
\* none gets one new Node, named by the prefix's last key and appended to the
\* children of the Node of the prefix before it; the new Node for P is appended
\* to the children of the Node of P without its last key; no other Node is made.
C21_AncestorCreation ==
    [][(last'.op = "willResolveField" /\ last'.threw = "") =>
         LET P == last'.arg.arr
             Ancestors == {q \in Prefixes(P) : q # P}
             Missing == {q \in Ancestors : Join(q) \notin DOMAIN nodes}
             AppendedTo(parent, n) ==
                 /\ Len(heap'[parent].child) > 0
                 /\ heap'[parent].child[Len(heap'[parent].child)] = n
                 /\ \A m \in 1..Len(heap') :
                       Occurrences(heap'[m].child, n) = IF m = parent THEN 1 ELSE 0
         IN  /\ \A q \in Ancestors : Join(q) \in DOMAIN nodes'
             /\ \A q \in Ancestors \ Missing : nodes'[Join(q)] = nodes[Join(q)]
             /\ Len(heap') = Len(heap) + Cardinality(Missing) + 1
             /\ \A q \in Missing \cup {P} :
                   /\ nodes'[Join(q)] > Len(heap)
                   /\ HasIdentity(heap'[nodes'[Join(q)]], Key(q))
                   /\ AppendedTo(nodes'[Join(Prev(q))], nodes'[Join(q)])
             /\ \A q, r \in Missing \cup {P} : q # r => nodes'[Join(q)] # nodes'[Join(r)]]_vars

\* a.b was started when a had no Node: both were made, a under the root
C21_Witness ==
    /\ last.op = "willResolveField" /\ last.threw = ""
    /\ last.arg.arr = <<Name("a"), Name("b")>>
    /\ fieldLog = <<last.arg.arr>>
    /\ Len(heap) = 3
    /\ heap[rootNode].child = <<nodes["a"]>>

\* C22: calling a field's end handle sets the end offset of the Node made by
\* the willResolveField call that returned the handle, to the time since the
\* request started, and changes nothing else: no other Node, none of that
\* Node's other fields, no entry of the node map; whichever other fields are
\* open and in whatever order the handles are called.
C22_EndHandleOwnNode ==
    [][last'.op = "endHandle" =>
         LET h == last'.arg.node
             origin == startHrTime.t[1] * NanosPerSec + startHrTime.t[2]
         IN  /\ h \in handles
             /\ heap[h].startTime # Absent
             /\ heap'[h].endTime = now - origin
             /\ heap'[h] = [heap[h] EXCEPT !.endTime = now - origin]
             /\ Len(heap') = Len(heap)
             /\ \A n \in 1..Len(heap) : n # h => heap'[n] = heap[n]
             /\ UNCHANGED <<nodes, handles, startHrTime, stopped, returned>>]_vars

\* two fields are open; the handle of the one started first is called
C22_Witness ==
    /\ last.op = "endHandle"
    /\ Len(heap) = 3
    /\ last.arg.node = 2
    /\ heap[2].startTime # Absent /\ heap[2].endTime # Absent
    /\ heap[3].startTime # Absent /\ heap[3].endTime = Absent

\* C15: every Node that has both a start and an end offset ends no earlier than
\* it starts, however willResolveField calls, end handles (repeated ones too)
\* and clock advances interleave.
C15_EndNotBeforeStart ==
    \A n \in 1..Len(heap) :
        (heap[n].startTime # Absent /\ heap[n].endTime # Absent) =>
            heap[n].endTime >= heap[n].startTime

\* a field that started after the request did and has ended; another still open
C15_Witness ==
    /\ \E n \in 1..Len(heap) :
          /\ heap[n].startTime > 0
          /\ heap[n].endTime # Absent
    /\ \E n \in 2..Len(heap) : heap[n].endTime = Absent

\* C16: the children of every Node are in the order their Nodes were created
\* (the order of allocation), whatever their names and indices, and a step only
\* ever appends to a Node's children.
C16_ChildrenInCreationOrder ==
    [][/\ \A n \in 1..Len(heap) :
            /\ Len(heap'[n].child) >= Len(heap[n].child)
            /\ SubSeq(heap'[n].child, 1, Len(heap[n].child)) = heap[n].child
       /\ \A n \in 1..Len(heap') : \A i, j \in 1..Len(heap'[n].child) :
            i < j <=> heap'[n].child[i] < heap'[n].child[j]]_vars

\* b was created before a: the root lists b first
C16_Witness ==
    /\ Len(heap[rootNode].child) = 2
    /\ heap[heap[rootNode].child[1]].fieldName = "b"
    /\ heap[heap[rootNode].child[2]].fieldName = "a"

----------------------------------------------------------------------------
(* The tracer's lifecycle follows its builder's *)
Idle  == NotStarted
Ended == Stopped

\* C8: executionDidStart, willResolveField, a field's end handle and
\* didEncounterErrors are accepted only while the tracer is Started: called
\* while Idle or Ended each throws and changes neither the Trace (its tree
\* included) nor the captured operation name and document.
C8_OnlyWhileStarted ==
    [][(/\ last'.op \in {"executionDidStart", "willResolveField", "endHandle",
                         "didEncounterErrors"}
        /\ (Idle \/ Ended)) =>
          /\ last'.threw # ""
          /\ UNCHANGED <<trace, heap, explicitOperationName, documentAST>>]_vars

\* C23: requestDidStart on a tracer that is Started or Ended throws and leaves
\* the Trace as it was: the start timestamp, the HTTP method and headers, the
\* variables and the client identity of the first requestDidStart.
C23_SecondStartKeepsTrace ==
    [][(last'.op = "requestDidStart" /\ ~Idle) =>
          /\ last'.threw # ""
          /\ trace'.startTime = trace.startTime
          /\ trace'.http = trace.http
          /\ trace'.details = trace.details
          /\ trace'.clientName = trace.clientName
          /\ trace'.clientVersion = trace.clientVersion
          /\ trace'.clientReferenceId = trace.clientReferenceId
          /\ trace' = trace]_vars

\* C9: addTrace is called exactly once per request, by the end handler's first
\* call, with the finished Trace: nothing is submitted before it, and a repeated
\* call of the end handler throws without submitting again.
C9_SubmitOnce ==
    [][/\ submitted' # submitted =>
            /\ last'.op = "requestDidEnd" /\ last'.threw = ""
            /\ submitted = <<>>
            /\ submitted' = <<submitted'[1]>>
            /\ submitted'[1].trace = trace'
            /\ trace'.root = rootNode
       /\ (last'.op = "requestDidEnd" /\ last'.threw = "") => submitted' # submitted
       /\ (last'.op = "requestDidEnd" /\ submitted # <<>>) => last'.threw # ""]_vars

C9_Witness ==
    /\ Len(submitted) = 1
    /\ last.op = "requestDidEnd"
    /\ last.threw = "stopTiming called twice!"
    /\ Len(heap) > 1

\* C10: every boolean flag of the submitted Trace equals the signal of the
\* metrics object at request end, under every header redaction option.
C10_FlagsMatchMetrics ==
    submitted # <<>> =>
        LET t == submitted[1].trace
            m == requestContext.metrics
        IN  /\ t.fullQueryCacheHit = m.responseCacheHit
            /\ t.forbiddenOperation = m.forbiddenOperation
            /\ t.registeredOperation = m.registeredOperation
            /\ t.persistedQueryHit = m.persistedQueryHit
            /\ t.persistedQueryRegister = m.persistedQueryRegister

\* the header names the tracer never records
AlwaysRedacted == {"authorization", "cookie", "set-cookie"}

\* C12: once requestDidStart has run, the header snapshot has no authorization,
\* cookie or set-cookie header and no header named in the option's list, names
\* compared without regard to case; unless the option is `true` (redact all,
\* the snapshot is empty) every other header of the request is in it with its
\* value.
C12_HeaderRedaction ==
    trace.http.defined =>
        LET hs   == requestContext.request.http.headers
            ph   == options.privateHeaders
            snap == trace.http.requestHeaders
            Listed(key) ==
                /\ ph.kind = "array"
                /\ \E i \in 1..Len(ph.names) : toLowerCase(ph.names[i]) = toLowerCase(key)
            Kept == {i \in 1..Len(hs) :
                        /\ ~(ph.kind = "boolean" /\ ph.b)
                        /\ toLowerCase(hs[i].key) \notin AlwaysRedacted
                        /\ ~Listed(hs[i].key)}
        IN  /\ DOMAIN snap = {hs[i].key : i \in Kept}
            /\ \A i \in Kept : snap[hs[i].key] = <<hs[i].value>>

C12_Witness ==
    /\ trace.http.defined
    /\ options.privateHeaders = ArrayOption(<<"X-Secret">>)
    /\ \E i \in 1..Len(requestContext.request.http.headers) :
          requestContext.request.http.headers[i].key = "x-secret"
    /\ "accept" \in DOMAIN trace.http.requestHeaders
    /\ "x-secret" \notin DOMAIN trace.http.requestHeaders

\* C13: once requestDidStart has run with variables and the option is not
\* `true`, the variable snapshot has exactly the request's variable names; a
\* name in the option's list (compared as written) maps to "", a string s to
\* "s" in quotes (the empty string to ""), a number to its digits, and a value
\* that cannot be serialized to the quoted sentinel; requestDidStart throws
\* nothing but the builder's lifecycle errors.
C13_VariableRedaction ==
    /\ (last.op = "requestDidStart" /\ last.threw # "") =>
           last.threw \in {"startTiming called twice!", "startTiming called after stopTiming!"}
    /\ (endHandler /\ ~(options.privateVariables.kind = "boolean" /\ options.privateVariables.b)
           /\ requestContext.request.variables.defined) =>
        LET vs   == requestContext.request.variables.vars
            pv   == options.privateVariables
            snap == trace.details.variablesJson
            Listed(name) ==
                pv.kind = "array" /\ \E i \in 1..Len(pv.names) : pv.names[i] = name
            Text(value) ==
                CASE value.kind = "string" -> "\"" \o value.s \o "\""
                  [] value.kind = "number" -> ToString(value.n)
                  [] OTHER -> "\"[Unable to convert value to JSON]\""
        IN  /\ trace.details.defined
            /\ DOMAIN snap = {vs[i].name : i \in 1..Len(vs)}
            /\ \A i \in 1..Len(vs) :
                  snap[vs[i].name] = IF Listed(vs[i].name) THEN "" ELSE Text(vs[i].value)

\* a listed name is blanked, a name that differs in case is not, the empty string
\* is kept as two quotes
C13_Witness ==
    /\ endHandler
    /\ options.privateVariables = ArrayOption(<<"password">>)
    /\ trace.details.defined
    /\ "Password" \in DOMAIN trace.details.variablesJson
    /\ trace.details.variablesJson["Password"] = "\"\""

C18_ConfigurationConflict ==
    [][/\ last'.op = "handleLegacyOptions" =>
            LET Set(x) == x.kind # "undefined"
                Conflict ==
                    \/ Set(options.privateVariables) /\ Set(options.sendVariableValues)
                    \/ Set(options.privateHeaders) /\ Set(options.sendHeaders)
            IN  /\ Conflict => (last'.threw # "" /\ agent' = "failed")
                /\ ~endHandler /\ ~startHrTime.set /\ submitted = <<>>
       /\ agent # "ready" => UNCHANGED <<trace, endHandler, startHrTime, submitted>>]_vars

\* the headers' options alone are in conflict
C18_Witness ==
    /\ agent = "failed"
    /\ last.op = "handleLegacyOptions" /\ last.threw # ""
    /\ options.privateVariables.kind = "undefined"
    /\ options.privateHeaders = BoolOption(TRUE)
    /\ options.sendHeaders.kind = "sendNone"

\* C19: when handleLegacyOptions returns, a legacy option that was false has
\* become { sendAll: true } in its new field, true { sendNone: true }, an array
\* { exceptNames: the array }, and the legacy field is undefined; an option
\* pair without a legacy value, and everything else in the options, is as before.
C19_LegacyConversion ==
    [][(last'.op = "handleLegacyOptions" /\ last'.threw = "") =>
         LET Converted(legacy, new, legacyAfter, newAfter) ==
                 /\ legacyAfter.kind = "undefined"
                 /\ (legacy.kind = "boolean" /\ ~legacy.b) =>
                        newAfter = [kind |-> "sendAll", names |-> <<>>]
                 /\ (legacy.kind = "boolean" /\ legacy.b) =>
                        newAfter = [kind |-> "sendNone", names |-> <<>>]
                 /\ legacy.kind = "array" =>
                        newAfter = [kind |-> "exceptNames", names |-> legacy.names]
                 /\ legacy.kind = "undefined" => newAfter = new
         IN  /\ Converted(options.privateVariables, options.sendVariableValues,
                          options'.privateVariables, options'.sendVariableValues)
             /\ Converted(options.privateHeaders, options.sendHeaders,
                          options'.privateHeaders, options'.sendHeaders)
             /\ options'.maskErrorDetails = options.maskErrorDetails
             /\ options'.rewriteError = options.rewriteError
             /\ (options.privateVariables.kind = "undefined"
                   /\ options.privateHeaders.kind = "undefined") => options' = options]_vars

\* privateVariables: false and privateHeaders: ['t1', 't2'] have been converted
C19_Witness ==
    /\ agent = "ready"
    /\ options.privateVariables.kind = "undefined"
    /\ options.privateHeaders.kind = "undefined"
    /\ options.sendVariableValues.kind = "sendAll"
    /\ options.sendHeaders = [kind |-> "exceptNames", names |-> <<"t1", "t2">>]

\* C14 and C20 read the errors a didEncounterErrors step was handed (each error
\* is handed over once) and what the user's function makes of them
HandedOver == seenErrors' \ seenErrors
Masking == options.maskErrorDetails
Rewriting == ~Masking /\ options.rewriteError # "undefined"
UserResult(e) == userRewriteError(options.rewriteError, e)
UserDrops(e) == Rewriting /\ UserResult(e).kind = "null"
\* the places of the Error records of the graph h: <<node, position>>
ErrorPlaces(h) == UNION {{<<n, i>> : i \in 1..Len(h[n].error)} : n \in 1..Len(h)}
\* the Error record of an error whose message is msg and whose other fields are e's
RecordOf(msg, e) ==
    [message  |-> msg,
     location |-> IF e.locations.defined THEN e.locations.at ELSE <<>>,
     json     |-> JSONStringifyError([e EXCEPT !.message = msg])]
MaskedRecord ==
    [message |-> "<masked>", location |-> <<>>, json |-> "{\"message\":\"<masked>\"}"]

\* C14: while the tracer is Started, didEncounterErrors adds one Error record
\* per error handed over but for those the user's function answers with null:
\* under maskErrorDetails the record has the placeholder message alone; under
\* a rewrite function, an answer that is no GraphQLError gives the record of the
\* original error, any other answer the record with the answer's message and the
\* original's locations, path and extensions; with neither, the record of the
\* original error.
C14_ErrorPolicy ==
    [][(last'.op = "didEncounterErrors" /\ Started) =>
         LET Expected(e) ==
                 IF Masking THEN MaskedRecord
                 ELSE IF Rewriting /\ UserResult(e).kind = "error"
                 THEN RecordOf(UserResult(e).error.message, e)
                 ELSE RecordOf(e.message, e)
             Added == ErrorPlaces(heap') \ ErrorPlaces(heap)
         IN  /\ last'.threw = ""
             /\ ErrorPlaces(heap) \subseteq ErrorPlaces(heap')
             /\ \A pl \in ErrorPlaces(heap) :
                   heap'[pl[1]].error[pl[2]] = heap[pl[1]].error[pl[2]]
             /\ Cardinality(Added) =
                   Cardinality({e \in HandedOver : ~UserDrops(e)})
             /\ \A e \in HandedOver : ~UserDrops(e) =>
                   \E pl \in Added : heap'[pl[1]].error[pl[2]] = Expected(e)]_vars

\* one of two errors was dropped, the other reported with the rewritten message
C14_Witness ==
    /\ last.op = "didEncounterErrors" /\ last.threw = ""
    /\ options.rewriteError = "dropNoPath" /\ ~options.maskErrorDetails
    /\ Cardinality(seenErrors) >= 2
    /\ \E e \in seenErrors : ~e.path.defined
    /\ Cardinality(ErrorPlaces(heap)) = 1
    /\ \E pl \in ErrorPlaces(heap) : heap[pl[1]].error[pl[2]].message = "rewritten"

\* C20: while the tracer is Started, every error handed to didEncounterErrors
\* that is not dropped lands on the Node registered for the path it was raised
\* with, and on the root Node only when it has no path or the path has no Node,
\* under maskErrorDetails and under every rewrite function.
C20_ErrorAtRaisedPath ==
    [][(last'.op = "didEncounterErrors" /\ Started) =>
         LET NodeOf(e) ==
                 IF e.path.defined /\ Join(e.path.arr) \in DOMAIN nodes
                 THEN nodes[Join(e.path.arr)] ELSE rootNode
         IN  \A n \in 1..Len(heap) :
                Len(heap'[n].error) - Len(heap[n].error) =
                    Cardinality({e \in HandedOver : ~UserDrops(e) /\ NodeOf(e) = n})]_vars

\* C11: the operation name submitted at request end is the explicit name if a
\* non-empty one was captured, else the name the pipeline put on the request
\* context, else the empty string; executionDidStart captures a non-empty name
\* and, given an empty or absent one, keeps the name captured before; nothing
\* else touches the explicit name.
C11_OperationNamePrecedence ==
    [][/\ last'.op = "executionDidStart" =>
            explicitOperationName' =
                IF last'.arg.defined /\ last'.arg.v # ""
                THEN last'.arg ELSE explicitOperationName
       /\ last'.op # "executionDidStart" => explicitOperationName' = explicitOperationName
       /\ submitted' # submitted =>
            submitted'[Len(submitted')].operationName =
                IF explicitOperationName.defined /\ explicitOperationName.v # ""
                THEN explicitOperationName.v
                ELSE IF requestContext.operationName.defined
                THEN requestContext.operationName.v
                ELSE ""]_vars

\* an explicit name won over the pipeline's although the last executionDidStart
\* came without a name
C11_Witness ==
    /\ Len(submitted) = 1
    /\ submitted[1].operationName = "Q"
    /\ requestContext.operationName = Str("P")
    /\ submitted[1].documentAST = Str("docE")
====
